---- MODULE Spec2Model ----
(***************************************************************************)
(* Model of lia/tree.py: LdapNode, LdapTree (_add_node, add_node,          *)
(* __iter__, _petrify, _dn_to_path) and the two exception classes.         *)
(*                                                                         *)
(* Python values are encoded as follows.                                   *)
(*   - None is <<>> and any other optional value x is <<x>>.               *)
(*   - A str is the sequence of its code points, so that sorted() and      *)
(*     "+".join() are computed on characters.                              *)
(*   - An object is a natural number (its identity); the heap maps the     *)
(*     identity of every LdapNode to its fields.                           *)
(*   - A data payload is a record with the attribute dn that the code      *)
(*     reads; dn is given as the component list parse_dn returns for it    *)
(*     (parse_dn belongs to ldap3 and is not modelled).  Payload objects   *)
(*     are truthy.                                                         *)
(***************************************************************************)
EXTENDS Integers, Sequences, FiniteSets, TLC

None == <<>>
Some(x) == <<x>>

(***************************************************************************)
(* Bounds of the model.                                                    *)
(***************************************************************************)
\* add_node calls are explored while fewer than MaxData nodes hold data
MaxData == 3
\* the calls of _petrify and __iter__ are counted up to MaxIterCalls
MaxIterCalls == 2

(***************************************************************************)
(* Strings                                                                 *)
(***************************************************************************)
s_plus == <<43>>
s_comma == <<44>>
s_eq == <<61>>
s_empty == <<>>
s_dc == <<100, 99>>
s_cn == <<99, 110>>
s_sn == <<115, 110>>
s_com == <<99, 111, 109>>
s_ex == <<101, 120>>
s_ot == <<111, 116>>
s_b == <<98>>
s_c == <<99>>

\* str.__lt__ : lexicographic order on code points
StrLess(a, b) ==
    \E i \in 1..(Len(a) + 1) :
        /\ \A j \in 1..(i - 1) : j <= Len(b) /\ a[j] = b[j]
        /\ i <= Len(b)
        /\ (i = Len(a) + 1 \/ a[i] < b[i])

\* insertion of x into an ascending list, after the elements equal to it
RECURSIVE SortedInsert(_, _)
SortedInsert(x, s) ==
    IF s = <<>> THEN <<x>>
    ELSE IF StrLess(x, Head(s)) THEN <<x>> \o s
    ELSE <<Head(s)>> \o SortedInsert(x, Tail(s))

\* sorted(l) for a list of str
RECURSIVE sorted(_)
sorted(l) ==
    IF l = <<>> THEN <<>>
    ELSE SortedInsert(l[Len(l)], sorted(SubSeq(l, 1, Len(l) - 1)))

\* sep.join(l)
RECURSIVE join(_, _)
join(sep, l) ==
    IF l = <<>> THEN s_empty
    ELSE IF Len(l) = 1 THEN l[1]
    ELSE l[1] \o sep \o join(sep, Tail(l))

\* the list l in reverse order
RECURSIVE Reverse(_)
Reverse(l) ==
    IF l = <<>> THEN <<>> ELSE Reverse(Tail(l)) \o <<Head(l)>>

\* reversed(l) applied to a list: a list_reverseiterator over its items
reversed(l) == [type |-> "list_reverseiterator", items |-> Reverse(l)]

(***************************************************************************)
(* LdapTree._dn_to_path                                                    *)
(***************************************************************************)
\* mutant of DnToPathLoop: the pairs of a level are joined in input order
RECURSIVE DnToPathLoop_unsorted(_, _, _, _)
DnToPathLoop_unsorted(comps, i, path, rdn) ==
    IF i > Len(comps) THEN path
    ELSE LET component == comps[i]
             rdn1 == Append(rdn, component[1] \o s_eq \o component[2])
         IN  IF component[3] # s_plus
             THEN DnToPathLoop_unsorted(comps, i + 1,
                                        Append(path, join(s_plus, rdn1)), <<>>)
             ELSE DnToPathLoop_unsorted(comps, i + 1, path, rdn1)

\* the loop over parse_dn(dn); component[0..2] are comps[i][1..3]
RECURSIVE DnToPathLoop(_, _, _, _)
DnToPathLoop(comps, i, path, rdn) ==
    IF i > Len(comps) THEN path
    ELSE LET component == comps[i]
             rdn1 == Append(rdn, component[1] \o s_eq \o component[2])
         IN  IF component[3] # s_plus
             THEN DnToPathLoop(comps, i + 1,
                               Append(path, join(s_plus, sorted(rdn1))), <<>>)
             ELSE DnToPathLoop(comps, i + 1, path, rdn1)

_dn_to_path(dn) == reversed(DnToPathLoop(dn, 1, <<>>, <<>>))

(***************************************************************************)
(* Inputs: the distinguished names entries are drawn from, as parse_dn     *)
(* returns them (leaf first; the third field is the separator that         *)
(* follows the component).                                                 *)
(***************************************************************************)
\* "", "dc=com", "dc=ex,dc=com", "cn=b+sn=c,dc=ex,dc=com", "sn=c+cn=b,dc=ex,dc=com"
dn_root == <<>>
dn_com == << <<s_dc, s_com, s_empty>> >>
dn_ex == << <<s_dc, s_ex, s_comma>>, <<s_dc, s_com, s_empty>> >>
dn_bc == << <<s_cn, s_b, s_plus>>, <<s_sn, s_c, s_comma>> >> \o dn_ex
dn_cb == << <<s_sn, s_c, s_plus>>, <<s_cn, s_b, s_comma>> >> \o dn_ex

DNs == {dn_root, dn_com, dn_ex, dn_bc, dn_cb}

\* the payload objects add_node is called with
Datas == [dn : DNs]

\* "dc=ot,dc=com", a sibling of "dc=ex,dc=com"
dn_ot == << <<s_dc, s_ot, s_comma>>, <<s_dc, s_com, s_empty>> >>

\* the names of the runs that build two subtrees below "dc=com"
SiblingDNs == {dn_root, dn_com, dn_ex, dn_ot}

SiblingDatas == [dn : SiblingDNs]

(***************************************************************************)
(* Exceptions                                                              *)
(***************************************************************************)
NoExc == [exc |-> "none", dn |-> s_empty]
TypeError == [exc |-> "TypeError", dn |-> s_empty]
AttributeError == [exc |-> "AttributeError", dn |-> s_empty]

\* TreePetrifiedError()
TreePetrifiedError == [exc |-> "TreePetrifiedError", dn |-> s_empty]

\* NodeNotEmptyError(path): __init__ evaluates ",".join(reversed(path));
\* reversed() accepts a list and raises TypeError for an iterator
NodeNotEmptyError(path) ==
    IF path.type = "list"
    THEN [exc |-> "NodeNotEmptyError", dn |-> join(s_comma, Reverse(path.items))]
    ELSE TypeError

(***************************************************************************)
(* State                                                                   *)
(***************************************************************************)
VARIABLES
    heap,             \* identity of each LdapNode |-> its fields
    nodes_with_data,  \* LdapTree.__nodes_with_data
    branches,         \* LdapTree.__branches
    petrified,        \* LdapTree.__petrified
    set_order,        \* the part of the iteration order of __nodes_with_data
                      \* that an abandoned pass has consumed, or None
    last_call,        \* the method of the last call made on the tree
    raised,           \* the exception the last call raised, or NoExc
    iter_result,      \* the set the last call returned if it was __iter__, else None
    added,            \* history: the add_node calls that returned normally
    iter_calls        \* history: number of _petrify and __iter__ calls so far,
                      \* counted up to MaxIterCalls

vars == <<heap, nodes_with_data, branches, petrified, set_order,
          last_call, raised, iter_result, added, iter_calls>>

\* the fields of the LdapTree object
tree == [heap |-> heap, nodes_with_data |-> nodes_with_data,
         branches |-> branches, petrified |-> petrified]

\* LdapNode(parent)
LdapNode(parent) ==
    [parent |-> parent, children |-> <<>>, descendants |-> None,
     data |-> None, toplevel |-> TRUE]

\* self.__top
top == 0

\* truth value of node.data: None is false, a payload object is true
Truthy(data) == data # None

(***************************************************************************)
(* LdapTree._add_node                                                      *)
(***************************************************************************)
\* the identity of the next object LdapNode(...) creates
NewNode(h) == Cardinality(DOMAIN h)

\* mutant of Descend: a node of the path that exists already revokes the
\* top-level flag, whether it holds data or not
RECURSIVE Descend_revokes_on_existing(_, _, _, _)
Descend_revokes_on_existing(h, node, toplevel, names) ==
    IF names = <<>> THEN [heap |-> h, node |-> node, toplevel |-> toplevel]
    ELSE LET name == Head(names)
             found == name \in DOMAIN h[node].children
             node1 == IF found THEN h[node].children[name] ELSE NewNode(h)
             h1 == IF found THEN h
                   ELSE [h EXCEPT ![node].children = @ @@ (name :> node1)]
                        @@ (node1 :> LdapNode(Some(node)))
         IN  Descend_revokes_on_existing(h1, node1,
                     IF found THEN FALSE ELSE toplevel,
                     Tail(names))

\* mutant of Descend: the data test is made on the node the step leaves,
\* so the root is tested and the last node of the path is not
RECURSIVE Descend_tests_before_step(_, _, _, _)
Descend_tests_before_step(h, node, toplevel, names) ==
    IF names = <<>> THEN [heap |-> h, node |-> node, toplevel |-> toplevel]
    ELSE LET name == Head(names)
             found == name \in DOMAIN h[node].children
             node1 == IF found THEN h[node].children[name] ELSE NewNode(h)
             h1 == IF found THEN h
                   ELSE [h EXCEPT ![node].children = @ @@ (name :> node1)]
                        @@ (node1 :> LdapNode(Some(node)))
         IN  Descend_tests_before_step(h1, node1,
                     IF Truthy(h[node].data) THEN FALSE ELSE toplevel,
                     Tail(names))

\* mutant of Descend: a node is created for every name of the path and
\* replaces the child stored under that name
RECURSIVE Descend_always_creates(_, _, _, _)
Descend_always_creates(h, node, toplevel, names) ==
    IF names = <<>> THEN [heap |-> h, node |-> node, toplevel |-> toplevel]
    ELSE LET name == Head(names)
             node1 == NewNode(h)
             h1 == [h EXCEPT ![node].children = (name :> node1) @@ @]
                   @@ (node1 :> LdapNode(Some(node)))
         IN  Descend_always_creates(h1, node1,
                     IF Truthy(h1[node1].data) THEN FALSE ELSE toplevel,
                     Tail(names))

\* the loop "for name in path": select or create each node of the path
RECURSIVE Descend(_, _, _, _)
Descend(h, node, toplevel, names) ==
    IF names = <<>> THEN [heap |-> h, node |-> node, toplevel |-> toplevel]
    ELSE LET name == Head(names)
             found == name \in DOMAIN h[node].children
             node1 == IF found THEN h[node].children[name] ELSE NewNode(h)
             h1 == IF found THEN h
                   ELSE [h EXCEPT ![node].children = @ @@ (name :> node1)]
                        @@ (node1 :> LdapNode(Some(node)))
         IN  Descend(h1, node1,
                     IF Truthy(h1[node1].data) THEN FALSE ELSE toplevel,
                     Tail(names))

\* mutant of _add_node: data and toplevel are assigned before the test
\* that the node is empty
_add_node_assigns_first(t, data) ==
    IF t.petrified
    THEN [tree |-> t, node |-> None, raised |-> TreePetrifiedError]
    ELSE LET path == _dn_to_path(data.dn)
             d == Descend(t.heap, top, TRUE, path.items)
             path1 == [path EXCEPT !.items = <<>>]
             t1 == [t EXCEPT
                       !.heap = [d.heap EXCEPT ![d.node].data = Some(data),
                                               ![d.node].toplevel = d.toplevel],
                       !.nodes_with_data = @ \cup {d.node}]
         IN  IF Truthy(d.heap[d.node].data)
             THEN [tree |-> t1, node |-> None,
                   raised |-> NodeNotEmptyError(path1)]
             ELSE [tree |-> t1, node |-> Some(d.node), raised |-> NoExc]

\* _add_node(data) called on the tree t: the tree it leaves, the node it
\* returns and the exception it raises
_add_node(t, data) ==
    IF t.petrified
    THEN [tree |-> t, node |-> None, raised |-> TreePetrifiedError]
    ELSE LET path == _dn_to_path(data.dn)
             d == Descend(t.heap, top, TRUE, path.items)
             \* the for loop has exhausted the iterator
             path1 == [path EXCEPT !.items = <<>>]
         IN  IF Truthy(d.heap[d.node].data)
             THEN [tree |-> [t EXCEPT !.heap = d.heap], node |-> None,
                   raised |-> NodeNotEmptyError(path1)]
             ELSE [tree |-> [t EXCEPT
                       !.heap = [d.heap EXCEPT ![d.node].data = Some(data),
                                               ![d.node].toplevel = d.toplevel],
                       !.nodes_with_data = @ \cup {d.node}],
                   node |-> Some(d.node),
                   raised |-> NoExc]

(***************************************************************************)
(* LdapTree.add_node                                                       *)
(***************************************************************************)
\* mutant of AddNode: the node is registered as a branch whatever is_leaf
AddNode_registers_leaf(t, data, is_leaf) ==
    LET r == _add_node(t, data) IN
    IF r.raised = NoExc
    THEN [tree |-> [r.tree EXCEPT
                        !.heap[r.node[1]].descendants = Some({}),
                        !.branches = @ \cup {r.node[1]}],
          node |-> r.node, raised |-> NoExc]
    ELSE [tree |-> r.tree, node |-> r.node, raised |-> r.raised]

\* mutant of AddNode: the node gets its descendant set and is not added to
\* the branches
AddNode_unregistered(t, data, is_leaf) ==
    LET r == _add_node(t, data) IN
    IF r.raised = NoExc /\ ~is_leaf
    THEN [tree |-> [r.tree EXCEPT !.heap[r.node[1]].descendants = Some({})],
          node |-> r.node, raised |-> NoExc]
    ELSE [tree |-> r.tree, node |-> r.node, raised |-> r.raised]

\* mutant of AddNode: the node is put in the descendant set of its parent
\* at once when the parent is a branch
AddNode_joins_parent(t, data, is_leaf) ==
    LET r == _add_node(t, data)
        n == r.node[1]
        t1 == IF is_leaf THEN r.tree
              ELSE [r.tree EXCEPT !.heap[n].descendants = Some({}),
                                  !.branches = @ \cup {n}]
        p == t1.heap[n].parent
    IN
    IF r.raised = NoExc
    THEN [tree |-> IF p # None /\ t1.heap[p[1]].descendants # None
                   THEN [t1 EXCEPT !.heap[p[1]].descendants = Some(@[1] \cup {n})]
                   ELSE t1,
          node |-> r.node, raised |-> NoExc]
    ELSE [tree |-> r.tree, node |-> r.node, raised |-> r.raised]

\* add_node(data, is_leaf) called on the tree t
AddNode(t, data, is_leaf) ==
    LET r == _add_node(t, data) IN
    IF r.raised = NoExc /\ ~is_leaf
    THEN [tree |-> [r.tree EXCEPT
                        !.heap[r.node[1]].descendants = Some({}),
                        !.branches = @ \cup {r.node[1]}],
          node |-> r.node, raised |-> NoExc]
    ELSE [tree |-> r.tree, node |-> r.node, raised |-> r.raised]

(***************************************************************************)
(* LdapTree._petrify                                                       *)
(***************************************************************************)
\* mutant of Walk: the climb goes on past a branch that holds data and
\* returns the one nearest to the root
RECURSIVE Walk_outermost(_, _)
Walk_outermost(h, parent) ==
    IF parent = Some(top) THEN [kind |-> "top", node |-> None]
    ELSE IF parent = None
         THEN [kind |-> "AttributeError", node |-> None]
    ELSE LET up == Walk_outermost(h, h[parent[1]].parent) IN
         IF up.kind # "top" THEN up
         ELSE IF Truthy(h[parent[1]].data) /\ h[parent[1]].descendants # None
              THEN [kind |-> "found", node |-> parent]
         ELSE up

\* the loop "while True" that starts at parent and climbs
RECURSIVE Walk(_, _)
Walk(h, parent) ==
    IF parent = Some(top) THEN [kind |-> "top", node |-> None]
    ELSE IF parent = None
         \* None == self.__top is false, then None.data is evaluated
         THEN [kind |-> "AttributeError", node |-> None]
    ELSE IF Truthy(h[parent[1]].data) /\ h[parent[1]].descendants # None
         THEN [kind |-> "found", node |-> parent]
    ELSE Walk(h, h[parent[1]].parent)

\* the number of times the body of the loop "while True" is entered
RECURSIVE WalkSteps(_, _)
WalkSteps(h, parent) ==
    IF parent = Some(top) THEN 1
    ELSE IF parent = None THEN 1
    ELSE IF Truthy(h[parent[1]].data) /\ h[parent[1]].descendants # None THEN 1
    ELSE 1 + WalkSteps(h, h[parent[1]].parent)

\* the loop "for node in self.__nodes_with_data", which visits the nodes in
\* the order the set yields them; order[i..] are the nodes still to visit.
\* pos is the position in order of the node at which the loop raised.
RECURSIVE PetrifyLoop(_, _, _)
PetrifyLoop(h, order, i) ==
    IF i > Len(order) THEN [heap |-> h, raised |-> NoExc, pos |-> 0]
    ELSE LET node == order[i] IN
         IF h[node].toplevel
         THEN LET w == Walk(h, h[node].parent) IN
              IF w.kind = "AttributeError"
              THEN [heap |-> h, raised |-> AttributeError, pos |-> i]
              ELSE IF w.kind = "found"
              THEN PetrifyLoop(
                     [h EXCEPT ![node].toplevel = FALSE,
                               ![w.node[1]].descendants = Some(@[1] \cup {node})],
                     order, i + 1)
              ELSE PetrifyLoop(h, order, i + 1)
         ELSE PetrifyLoop(h, order, i + 1)

\* mutant of Petrify: every descendant set is emptied before the pass
Petrify_resets(t, order) ==
    LET h0 == [n \in DOMAIN t.heap |->
                 IF t.heap[n].descendants # None
                 THEN [t.heap[n] EXCEPT !.descendants = Some({})]
                 ELSE t.heap[n]]
        r == PetrifyLoop(h0, order, 1)
    IN
    [tree |-> [t EXCEPT !.heap = r.heap,
                        !.petrified = IF r.raised = NoExc THEN TRUE ELSE @],
     raised |-> r.raised,
     consumed |-> IF r.raised = NoExc THEN None
                  ELSE Some(SubSeq(order, 1, r.pos))]

\* _petrify() called on the tree t when the set yields its elements in order
Petrify(t, order) ==
    LET r == PetrifyLoop(t.heap, order, 1) IN
    [tree |-> [t EXCEPT !.heap = r.heap,
                        !.petrified = IF r.raised = NoExc THEN TRUE ELSE @],
     raised |-> r.raised,
     consumed |-> IF r.raised = NoExc THEN None
                  ELSE Some(SubSeq(order, 1, r.pos))]

\* mutant of Iter: the branches are returned without the freeze pass
Iter_skips_freeze(t, order) ==
    [tree |-> t, raised |-> NoExc, consumed |-> None,
     result |-> Some(t.branches)]

\* __iter__() called on the tree t: the result is the set iter() is given
Iter(t, order) ==
    LET r == IF ~t.petrified THEN Petrify(t, order)
             ELSE [tree |-> t, raised |-> NoExc, consumed |-> None]
    IN  [tree |-> r.tree, raised |-> r.raised, consumed |-> r.consumed,
         result |-> IF r.raised = NoExc THEN Some(r.tree.branches) ELSE None]

(***************************************************************************)
(* Iteration order of a set.  A set yields its elements in an order the    *)
(* program does not control; it yields them in the same order again as     *)
(* long as it is not modified.  A pass that an exception abandons has      *)
(* consumed a prefix of the order, which set_order keeps.  After a pass    *)
(* that ran to completion any order is admitted for a later pass.          *)
(***************************************************************************)
\* the sequences that list every element of the set S once
RECURSIVE Orders(_)
Orders(S) ==
    IF S = {} THEN {<<>>}
    ELSE UNION {{<<x>> \o o : o \in Orders(S \ {x})} : x \in S}

Range(s) == {s[i] : i \in DOMAIN s}

IterOrders ==
    IF set_order = None THEN Orders(nodes_with_data)
    ELSE {set_order[1] \o o : o \in Orders(nodes_with_data \ Range(set_order[1]))}

(***************************************************************************)
(* Operations                                                              *)
(***************************************************************************)
\* LdapTree()
NewTree ==
    [heap |-> (top :> LdapNode(None)), nodes_with_data |-> {},
     branches |-> {}, petrified |-> FALSE]

Min(a, b) == IF a < b THEN a ELSE b

Init ==
    /\ heap = NewTree.heap
    /\ nodes_with_data = NewTree.nodes_with_data
    /\ branches = NewTree.branches
    /\ petrified = NewTree.petrified
    /\ set_order = None
    /\ last_call = "__init__"
    /\ raised = NoExc
    /\ iter_result = None
    /\ added = {}
    /\ iter_calls = 0

\* the call tree.add_node(data, is_leaf)
add_node(data, is_leaf) ==
    LET r == AddNode(tree, data, is_leaf) IN
    /\ r.raised # NoExc \/ Cardinality(nodes_with_data) < MaxData
    /\ heap' = r.tree.heap
    /\ nodes_with_data' = r.tree.nodes_with_data
    /\ branches' = r.tree.branches
    /\ petrified' = r.tree.petrified
    /\ set_order' = IF r.raised = NoExc THEN None ELSE set_order
    /\ raised' = r.raised
    /\ last_call' = "add_node"
    /\ iter_result' = None
    /\ added' = IF r.raised = NoExc
                THEN added \cup {[data |-> data, is_leaf |-> is_leaf,
                                  node |-> r.node[1]]}
                ELSE added
    /\ UNCHANGED iter_calls

\* the call tree._petrify()
_petrify ==
    \E r \in {Petrify(tree, order) : order \in IterOrders} :
        /\ heap' = r.tree.heap
        /\ nodes_with_data' = r.tree.nodes_with_data
        /\ branches' = r.tree.branches
        /\ petrified' = r.tree.petrified
        /\ set_order' = r.consumed
        /\ raised' = r.raised
        /\ last_call' = "_petrify"
        /\ iter_result' = None
        /\ iter_calls' = Min(iter_calls + 1, MaxIterCalls)
        /\ UNCHANGED added

\* the call iter(tree)
__iter__ ==
    \E r \in {Iter(tree, order) : order \in IterOrders} :
        /\ heap' = r.tree.heap
        /\ nodes_with_data' = r.tree.nodes_with_data
        /\ branches' = r.tree.branches
        /\ petrified' = r.tree.petrified
        /\ set_order' = r.consumed
        /\ raised' = r.raised
        /\ last_call' = "__iter__"
        /\ iter_result' = r.result
        /\ iter_calls' = Min(iter_calls + 1, MaxIterCalls)
        /\ UNCHANGED added

Next ==
    \/ \E data \in Datas, is_leaf \in BOOLEAN : add_node(data, is_leaf)
    \/ _petrify
    \/ __iter__

Spec == Init /\ [][Next]_vars

\* the same operations, with entries in two subtrees below "dc=com"
NextSiblings ==
    \/ \E data \in SiblingDatas, is_leaf \in BOOLEAN : add_node(data, is_leaf)
    \/ _petrify
    \/ __iter__

SpecSiblings == Init /\ [][NextSiblings]_vars

(***************************************************************************)
(* Notions the properties are stated with                                  *)
(***************************************************************************)
\* the node holds data
HoldsData(h, n) == h[n].data # None

\* the node is a branch: it has a descendant set
IsBranch(h, n) == h[n].descendants # None

\* the proper ancestors of n, nearest first, up to and including the root
RECURSIVE AncestorsOf(_, _)
AncestorsOf(h, n) ==
    IF h[n].parent = None THEN <<>>
    ELSE <<h[n].parent[1]>> \o AncestorsOf(h, h[n].parent[1])

\* the proper ancestors of n that hold data and are branches, nearest first
QualifyingAncestors(h, n) ==
    SelectSeq(AncestorsOf(h, n), LAMBDA a : HoldsData(h, a) /\ IsBranch(h, a))

\* the descendant sets n is a member of
Owners(h, n) ==
    {b \in DOMAIN h : IsBranch(h, b) /\ n \in h[b].descendants[1]}

\* the node the names lead to from node, or None when a name is missing
RECURSIVE Resolve(_, _, _)
Resolve(h, node, names) ==
    IF names = <<>> THEN Some(node)
    ELSE IF Head(names) \in DOMAIN h[node].children
         THEN Resolve(h, h[node].children[Head(names)], Tail(names))
         ELSE None

\* the node the entry data is stored at, or None when it does not exist yet
Destination(h, data) == Resolve(h, top, _dn_to_path(data.dn).items)

\* the entry's path resolves to a node that already holds data
DestinationHoldsData(h, data) ==
    /\ Destination(h, data) # None
    /\ HoldsData(h, Destination(h, data)[1])

(***************************************************************************)
(* C1: after freeze, every data node that has a proper ancestor which      *)
(* holds data and is a branch is a member of the descendant set of the     *)
(* nearest such ancestor and is not top-level.                             *)
(* Fails: a node added after an ancestor that holds data gets              *)
(* toplevel = False in _add_node and _petrify skips it.                    *)
(***************************************************************************)
C1_NearestBranchOwnsNode ==
    petrified =>
        \A n \in nodes_with_data :
            LET q == QualifyingAncestors(heap, n) IN
            q # <<>> => /\ n \in heap[q[1]].descendants[1]
                        /\ ~heap[n].toplevel

(***************************************************************************)
(* C2: after freeze, every data node without a proper ancestor that holds  *)
(* data and is a branch is top-level and in no descendant set, also when   *)
(* an ancestor holds data as a leaf, whichever was added first.            *)
(* Fails: a node added after a leaf ancestor that holds data is left with  *)
(* toplevel = False.                                                       *)
(***************************************************************************)
C2_NoBranchAncestorTopLevel ==
    petrified =>
        \A n \in nodes_with_data :
            QualifyingAncestors(heap, n) = <<>> =>
                /\ heap[n].toplevel
                /\ Owners(heap, n) = {}

(***************************************************************************)
(* C3: construction is order-independent.  Adding the same entries         *)
(* (pairwise distinct paths) in any order and freezing yields the same     *)
(* branch set, the same descendant set for each branch and the same        *)
(* top-level flag for each data node.  Nodes of different runs are         *)
(* identified by their path from the root.                                 *)
(* Fails: a child added after its branch parent is never put in the        *)
(* parent's descendant set, a child added before it is.                    *)
(***************************************************************************)
\* the names that lead from the root to n
RECURSIVE PathOf(_, _)
PathOf(h, n) ==
    IF h[n].parent = None THEN <<>>
    ELSE LET p == h[n].parent[1]
             name == CHOOSE k \in DOMAIN h[p].children : h[p].children[k] = n
         IN  Append(PathOf(h, p), name)

\* what a caller reads from a tree after freeze
Classification(t) ==
    [branches |-> {PathOf(t.heap, b) : b \in t.branches},
     descendants |-> UNION {{<<PathOf(t.heap, b), PathOf(t.heap, m)>> :
                                 m \in t.heap[b].descendants[1]} :
                               b \in {x \in DOMAIN t.heap : IsBranch(t.heap, x)}},
     toplevel |-> {<<PathOf(t.heap, n), t.heap[n].toplevel>> :
                        n \in t.nodes_with_data}]

\* the tree after the calls add_node(e.data, e.is_leaf) for e in entries
RECURSIVE AddAll(_, _)
AddAll(t, entries) ==
    IF entries = <<>> THEN t
    ELSE AddAll(AddNode(t, Head(entries).data, Head(entries).is_leaf).tree,
                Tail(entries))

\* the entries that were added to the tree
Entries == {[data |-> a.data, is_leaf |-> a.is_leaf] : a \in added}

C3_OrderIndependent ==
    petrified =>
        \A entries \in Orders(Entries) :
            LET t == AddAll(NewTree, entries) IN
            \A order \in Orders(t.nodes_with_data) :
                Classification(Petrify(t, order).tree) = Classification(tree)

(***************************************************************************)
(* C4: while the tree is being built, an add_node whose path resolves to   *)
(* a node that already holds data fails with NodeNotEmptyError, and the    *)
(* error carries the leaf-to-root path of the entry, for either value of   *)
(* is_leaf.                                                                *)
(* Fails: _dn_to_path returns an iterator, which NodeNotEmptyError cannot  *)
(* reverse, so the call ends in TypeError.                                 *)
(***************************************************************************)
\* the names of the entry's path, leaf first, joined by commas
LeafToRootPath(data) ==
    join(s_comma, Reverse(_dn_to_path(data.dn).items))

C4_DuplicateRaisesNodeNotEmpty ==
    [][\A data \in Datas, is_leaf \in BOOLEAN :
          (/\ ~petrified
           /\ DestinationHoldsData(heap, data)
           /\ add_node(data, is_leaf))
          => /\ raised'.exc = "NodeNotEmptyError"
             /\ raised'.dn = LeafToRootPath(data)]_vars

(***************************************************************************)
(* C5: the data of a node is assigned at most once.  No step changes the   *)
(* data a node holds, an add_node that returns has stored its data at a    *)
(* node that held none, and an add_node that fails leaves the tree         *)
(* unchanged: every node keeps its data, its top-level flag and its        *)
(* descendant set (a leaf does not become a branch), no node is created    *)
(* and nodes_with_data, branches and petrified are unchanged.              *)
(***************************************************************************)
C5_FailedAddLeavesTreeUnchanged ==
    [][/\ \A n \in DOMAIN heap :
             HoldsData(heap, n) => heap'[n].data = heap[n].data
       /\ (last_call' = "add_node" /\ raised' = NoExc)
          => \E n \in nodes_with_data' \ nodes_with_data :
                n \in DOMAIN heap => ~HoldsData(heap, n)
       /\ (last_call' = "add_node" /\ raised' # NoExc)
          => UNCHANGED <<heap, nodes_with_data, branches, petrified>>]_vars

\* a duplicate add_node has just failed on a tree that holds a leaf
C5_Witness ==
    /\ last_call = "add_node"
    /\ raised = TypeError
    /\ \E n \in nodes_with_data : ~IsBranch(heap, n)

(***************************************************************************)
(* C6: every add_node call made after the first _petrify or __iter__ call  *)
(* fails with TreePetrifiedError and changes nothing.                      *)
(* Fails: a _petrify that raises (C9) leaves petrified = False, and the    *)
(* add_node calls that follow succeed.                                     *)
(***************************************************************************)
C6_AddAfterFreezeRaises ==
    [][\A data \in Datas, is_leaf \in BOOLEAN :
          (/\ iter_calls > 0
           /\ add_node(data, is_leaf))
          => /\ raised' = TreePetrifiedError
             /\ UNCHANGED <<heap, nodes_with_data, branches, petrified>>]_vars

(***************************************************************************)
(* C7: after freeze, __iter__ returns exactly the nodes that were added    *)
(* with is_leaf = False: no node added with is_leaf = True and no node     *)
(* without data is among them.                                             *)
(***************************************************************************)
AddedAs(is_leaf) == {a.node : a \in {x \in added : x.is_leaf = is_leaf}}

C7_IterReturnsAddedBranches ==
    iter_result # None =>
        /\ petrified
        /\ iter_result[1] = AddedAs(FALSE)
        /\ iter_result[1] \cap AddedAs(TRUE) = {}
        /\ \A n \in iter_result[1] : HoldsData(heap, n)

\* __iter__ has returned on a tree with a branch, a leaf and a node without
\* data below the root
C7_Witness ==
    /\ iter_result # None
    /\ AddedAs(FALSE) # {}
    /\ AddedAs(TRUE) # {}
    /\ \E n \in DOMAIN heap : n # top /\ ~HoldsData(heap, n)

(***************************************************************************)
(* C8: _petrify and __iter__ are idempotent.  A _petrify or __iter__ call  *)
(* that follows another one, or that is made on a frozen tree, leaves      *)
(* the branch set, every descendant set and every top-level flag as they   *)
(* were.                                                                   *)
(***************************************************************************)
FreezeCalls == {"_petrify", "__iter__"}

C8_FreezeIdempotent ==
    [][(/\ (petrified \/ last_call \in FreezeCalls)
        /\ last_call' \in FreezeCalls)
       => UNCHANGED <<heap, nodes_with_data, branches, petrified>>]_vars

\* a second _petrify or __iter__ call has returned on a frozen tree in
\* which a descendant set has a member
C8_Witness ==
    /\ petrified
    /\ iter_calls >= 2
    /\ last_call \in FreezeCalls
    /\ \E b \in branches : heap[b].descendants[1] # {}

(***************************************************************************)
(* C9: _petrify never fails: after any sequence of add_node calls, also    *)
(* one for an entry whose path is empty, it returns and sets petrified.    *)
(* Fails: the root holding data is walked from its parent None, and        *)
(* None.data raises AttributeError.                                        *)
(***************************************************************************)
C9_FreezeNeverFails ==
    last_call \in FreezeCalls => raised = NoExc /\ petrified

(***************************************************************************)
(* C10: two distinguished names that differ only in the order of the       *)
(* pairs inside a multi-valued level normalize to the same path and        *)
(* resolve to the same node, so adding one after the other is a            *)
(* duplicate insertion: no add_node returns normally for a name that is a  *)
(* reordering of the name of an entry the tree holds.                      *)
(***************************************************************************)
\* the level of the i-th component: the number of levels closed before it
LevelOf(dn, i) == Cardinality({j \in 1..(i - 1) : dn[j][3] # s_plus})

\* dn2 lists the components of dn1 with the pairs of each level permuted
SameUpToOrderInLevels(dn1, dn2) ==
    /\ Len(dn1) = Len(dn2)
    /\ \A i \in DOMAIN dn1 : dn1[i][3] = dn2[i][3]
    /\ \E f \in [DOMAIN dn1 -> DOMAIN dn1] :
          /\ \A i, j \in DOMAIN dn1 : f[i] = f[j] => i = j
          /\ \A i \in DOMAIN dn1 :
                /\ LevelOf(dn1, f[i]) = LevelOf(dn1, i)
                /\ dn2[i][1] = dn1[f[i]][1]
                /\ dn2[i][2] = dn1[f[i]][2]

\* the pairs of names in DNs that are reorderings of each other
ReorderedPairs ==
    {p \in DNs \X DNs : SameUpToOrderInLevels(p[1], p[2])}

\* the names in DNs that are a reordering of dn, dn included
Reorderings(dn) == {dn2 \in DNs : <<dn, dn2>> \in ReorderedPairs}

C10_LevelOrderIrrelevant ==
    /\ [](\A n \in nodes_with_data :
            \A dn2 \in Reorderings(heap[n].data[1].dn) :
                /\ _dn_to_path(dn2) = _dn_to_path(heap[n].data[1].dn)
                /\ Destination(heap, [dn |-> dn2]) = Some(n))
    /\ [][(last_call' = "add_node" /\ raised' = NoExc)
          => \A a \in added' \ added, n \in nodes_with_data :
                a.data.dn \notin Reorderings(heap[n].data[1].dn)]_vars

\* a node holds data whose name has another order, and an add_node has
\* just failed as a duplicate
C10_Witness ==
    /\ \E n \in nodes_with_data :
          Reorderings(heap[n].data[1].dn) # {heap[n].data[1].dn}
    /\ last_call = "add_node"
    /\ raised = TypeError

(***************************************************************************)
(* C11: ancestors that hold no data are transparent.  After freeze, a data *)
(* node all of whose proper ancestors hold no data is top-level and in no  *)
(* descendant set; so are two branches added below a common parent that    *)
(* never receives data.                                                    *)
(***************************************************************************)
\* no proper ancestor of n holds data
NoAncestorHoldsData(h, n) ==
    \A a \in Range(AncestorsOf(h, n)) : ~HoldsData(h, a)

C11_DatalessAncestorsTransparent ==
    petrified =>
        \A n \in nodes_with_data :
            NoAncestorHoldsData(heap, n) =>
                /\ heap[n].toplevel
                /\ Owners(heap, n) = {}

\* the tree is frozen and holds two branches below a common parent that is
\* not the root and holds no data
C11_Witness ==
    /\ petrified
    /\ \E b1, b2 \in branches :
          /\ b1 # b2
          /\ heap[b1].parent = heap[b2].parent
          /\ heap[b1].parent # Some(top)
          /\ ~HoldsData(heap, heap[b1].parent[1])

(***************************************************************************)
(* C12: the lifecycle is one-way.  petrified is False after construction,  *)
(* becomes True only in the first _petrify or __iter__ call, and once True *)
(* stays True; an __iter__ that returns leaves the tree frozen, so every   *)
(* iteration is made on the classification the freeze pass computes.       *)
(***************************************************************************)
C12_FrozenOneWay ==
    /\ [](last_call = "__init__" => ~petrified)
    /\ [][/\ petrified => petrified'
          /\ (~petrified /\ petrified')
             => (last_call' \in FreezeCalls /\ iter_calls = 0)
          /\ (last_call' = "__iter__" /\ raised' = NoExc)
             => (petrified' /\ iter_result' = Some(branches'))]_vars

\* the first call after the entries were added is an __iter__ made while
\* the tree was being built; it has returned and its freeze pass has put a
\* node in a descendant set
C12_Witness ==
    /\ last_call = "__iter__"
    /\ iter_calls = 1
    /\ iter_result # None
    /\ petrified
    /\ \E b \in branches : heap[b].descendants[1] # {}

(***************************************************************************)
(* C13: in every reachable state the root holds no data, has no parent and *)
(* is a member of neither nodes_with_data nor branches, also after an      *)
(* add_node whose normalized path is empty.                                *)
(* Fails: for an empty path the loop of _add_node is not entered, the      *)
(* destination is the root, and the data is stored there.                  *)
(***************************************************************************)
C13_RootHoldsNoData ==
    /\ ~HoldsData(heap, top)
    /\ heap[top].parent = None
    /\ top \notin nodes_with_data
    /\ top \notin branches

(***************************************************************************)
(* C14: in every reachable state a node has a descendant set if and only   *)
(* if an add_node with is_leaf = False returned for it, and if and only if *)
(* it is in branches; a node added with is_leaf = True and a node without  *)
(* data have none.                                                         *)
(***************************************************************************)
C14_DescendantSetIffBranch ==
    \A n \in DOMAIN heap :
        /\ IsBranch(heap, n) <=> n \in AddedAs(FALSE)
        /\ IsBranch(heap, n) <=> n \in branches
        /\ n \in AddedAs(TRUE) => ~IsBranch(heap, n)
        /\ ~HoldsData(heap, n) => ~IsBranch(heap, n)

\* a freeze pass has run on a tree with a branch, a leaf below it and a
\* node without data
C14_Witness ==
    /\ last_call = "_petrify"
    /\ petrified
    /\ \E b \in AddedAs(FALSE), l \in AddedAs(TRUE) :
          b \in Range(AncestorsOf(heap, l))
    /\ \E n \in DOMAIN heap : n # top /\ ~HoldsData(heap, n)

(***************************************************************************)
(* C15: an add_node that returns sets the top-level flag of the node it    *)
(* stores the data at to False if and only if a node strictly between the  *)
(* root and that node held data when the call was made, and to True        *)
(* otherwise; the flag of every other node is left as it was.              *)
(***************************************************************************)
\* the nodes strictly between the root and n
StrictlyBetweenRootAnd(h, n) == Range(AncestorsOf(h, n)) \ {top}

C15_ProvisionalFlag ==
    [][(last_call' = "add_node" /\ raised' = NoExc)
       => \A a \in added' \ added :
             /\ heap'[a.node].toplevel =
                   ~(\E m \in StrictlyBetweenRootAnd(heap', a.node) :
                         m \in DOMAIN heap /\ HoldsData(heap, m))
             /\ \A n \in DOMAIN heap \ {a.node} :
                   heap'[n].toplevel = heap[n].toplevel]_vars

\* before any freeze an add_node has returned, the root holds data, a node
\* below it has the flag True and another node has the flag False
C15_Witness ==
    /\ iter_calls = 0
    /\ last_call = "add_node"
    /\ raised = NoExc
    /\ HoldsData(heap, top)
    /\ \E n \in nodes_with_data \ {top} : heap[n].toplevel
    /\ \E n \in nodes_with_data : ~heap[n].toplevel

(***************************************************************************)
(* C16: before the first freeze every descendant set is empty.  add_node   *)
(* creates a descendant set empty and changes no existing one; only the    *)
(* freeze pass adds members.                                               *)
(***************************************************************************)
C16_SetsEmptyBeforeFreeze ==
    /\ [](iter_calls = 0 =>
            \A n \in DOMAIN heap :
                IsBranch(heap, n) => heap[n].descendants = Some({}))
    /\ [][last_call' = "add_node" =>
            \A n \in DOMAIN heap' :
                IsBranch(heap', n) =>
                    heap'[n].descendants =
                        IF n \in DOMAIN heap /\ IsBranch(heap, n)
                        THEN heap[n].descendants ELSE Some({})]_vars

\* no freeze was called yet, and an add_node has returned on a tree in
\* which a branch has a data node below it
C16_Witness ==
    /\ iter_calls = 0
    /\ last_call = "add_node"
    /\ raised = NoExc
    /\ \E b \in branches, n \in nodes_with_data :
          b \in Range(AncestorsOf(heap, n))

(***************************************************************************)
(* C17: the structure of the tree.  In every state each node but the root  *)
(* has one parent and is stored under exactly one name in the children of  *)
(* that parent and of no other node, so the names from the root to a node  *)
(* resolve to that node.  No step removes a node, changes a parent or      *)
(* removes or redirects a children entry, and nodes are created only by an *)
(* add_node that returns, on the path of the entry it adds.                *)
(***************************************************************************)
\* the children entries that lead to n
EntriesTo(h, n) ==
    UNION {{<<p, k>> : k \in {x \in DOMAIN h[p].children : h[p].children[x] = n}} :
              p \in DOMAIN h}

C17_StructureAppendOnly ==
    /\ [](/\ heap[top].parent = None
          /\ EntriesTo(heap, top) = {}
          /\ \A n \in DOMAIN heap \ {top} :
                /\ heap[n].parent # None
                /\ heap[n].parent[1] \in DOMAIN heap
                /\ Cardinality(EntriesTo(heap, n)) = 1
                /\ \A e \in EntriesTo(heap, n) : e[1] = heap[n].parent[1]
                /\ Resolve(heap, top, PathOf(heap, n)) = Some(n))
    /\ [][/\ \A n \in DOMAIN heap :
                /\ n \in DOMAIN heap'
                /\ heap'[n].parent = heap[n].parent
                /\ \A k \in DOMAIN heap[n].children :
                      /\ k \in DOMAIN heap'[n].children
                      /\ heap'[n].children[k] = heap[n].children[k]
          /\ \A n \in DOMAIN heap' \ DOMAIN heap :
                /\ last_call' = "add_node"
                /\ raised' = NoExc
                /\ \E a \in added' \ added :
                      n \in {a.node} \cup Range(AncestorsOf(heap', a.node))]_vars

\* an add_node has returned for an entry whose parent node existed and
\* already had another child that holds data
C17_Witness ==
    /\ last_call = "add_node"
    /\ raised = NoExc
    /\ \E n1, n2 \in nodes_with_data :
          /\ n1 # n2
          /\ heap[n1].parent = heap[n2].parent
          /\ heap[n1].parent # Some(top)

(***************************************************************************)
(* C18: the freeze pass terminates.  For every data node whose flag is     *)
(* True the walk from its parent ends within as many steps as the node is  *)
(* deep, at the root or at the nearest ancestor that holds data and is a   *)
(* branch, and a _petrify or __iter__ call leaves the tree frozen.         *)
(* Fails: the root holds data after add_node with an empty path (C13), its *)
(* walk starts at None and ends in AttributeError (C9) after one step, and *)
(* petrified is not set.                                                   *)
(***************************************************************************)
\* the number of proper ancestors of n
Depth(h, n) == Len(AncestorsOf(h, n))

C18_FreezeTerminates ==
    /\ \A n \in nodes_with_data :
          heap[n].toplevel =>
              LET w == Walk(heap, heap[n].parent)
                  q == QualifyingAncestors(heap, n)
              IN  /\ WalkSteps(heap, heap[n].parent) <= Depth(heap, n)
                  /\ \/ w.kind = "top" /\ q = <<>>
                     \/ w.kind = "found" /\ q # <<>> /\ w.node = Some(q[1])
    /\ last_call \in FreezeCalls => petrified

\* the walks and the passes of the trees whose root holds no data
C18_TerminatesUnlessRootHoldsData ==
    ~HoldsData(heap, top) => C18_FreezeTerminates

(***************************************************************************)
(* C19: descendant sets are sound after freeze.  Every member m of the     *)
(* descendant set of a branch b holds data, is a proper descendant of b,   *)
(* is not top-level, has no node that holds data and is a branch strictly  *)
(* between itself and b, and is in no other descendant set.                *)
(***************************************************************************)
C19_DescendantSetsSound ==
    petrified =>
        \A b \in DOMAIN heap :
            IsBranch(heap, b) =>
                \A m \in heap[b].descendants[1] :
                    /\ m \in nodes_with_data
                    /\ HoldsData(heap, m)
                    /\ b \in Range(AncestorsOf(heap, m))
                    /\ ~heap[m].toplevel
                    /\ QualifyingAncestors(heap, m)[1] = b
                    /\ Owners(heap, m) = {b}

\* the tree is frozen and a member of a descendant set has two branches
\* that hold data among its ancestors
C19_Witness ==
    /\ petrified
    /\ \E b \in branches :
          \E m \in heap[b].descendants[1] :
              Len(QualifyingAncestors(heap, m)) >= 2

(***************************************************************************)
(* C20: the freeze pass does not depend on the order in which it visits    *)
(* nodes_with_data.  From a tree that is not frozen, the pass leaves the   *)
(* same descendant sets and the same top-level flags (the same tree)       *)
(* whatever the order.                                                     *)
(* Fails: when the root holds data (C13) the pass raises at the root (C9)  *)
(* and has classified the nodes the order put before it, no others.        *)
(***************************************************************************)
\* the trees _petrify can leave, one for each order of the visit
PassOutcomes == {Petrify(tree, order).tree : order \in Orders(nodes_with_data)}

C20_PassOrderIrrelevant ==
    ~petrified => Cardinality(PassOutcomes) = 1

\* the outcomes of the passes on the trees whose root holds no data
C20_OrderIrrelevantUnlessRootHoldsData ==
    (~petrified /\ ~HoldsData(heap, top)) => Cardinality(PassOutcomes) = 1

====
